---- MODULE Spec2Model ----
(***************************************************************************)
(* Model of Project_Two.cpp: the ABCU advising program.  Courses are kept  *)
(* in an AVL tree of heap-allocated nodes keyed by course number.          *)
(*                                                                         *)
(* Strings are sequences of character codes (ASCII), compared the way      *)
(* std::string compares them.  The heap is the sequence of every AVLNode   *)
(* ever allocated by `new`; a pointer is an index into it and NULL is the  *)
(* null pointer.  A deleted node keeps its slot; freed counts its deletes. *)
(***************************************************************************)
EXTENDS Integers, Sequences, FiniteSets, TLC

VARIABLES
    heap,        \* every AVLNode allocated so far, by address
    root,        \* the AVLNode* the caller holds (main's root)
    freed,       \* freed[n]: how many times node n was deleted
    dataLoaded,  \* main's dataLoaded flag
    pc,          \* where main is: "menu" or "exited"
    res,         \* what the last operation was and what it returned / printed
    rotLog,      \* the rotations performed so far, in order
    latest,      \* history: key -> value of the most recent insert
    mode,        \* which driver runs: "store", "orders", "worst", "main",
                 \* "load", "unlocked" or "locked"
    stream,      \* loadCoursesFromFile's ifstream: the lines not yet read
    lineNumber,  \* loadCoursesFromFile's lineNumber
    lock,        \* who holds the store's lock: "free", "writer" or "reader"
    writer,      \* a thread inside avlInsert: its key, the stores it has left
    reader       \* a thread inside avlFind: its key, its node pointer, its result

\* The variables of the file-reading loop and of the two threads.
loadVars == <<stream, lineNumber>>
threadVars == <<lock, writer, reader>>

vars == <<heap, root, freed, dataLoaded, pc, res, rotLog, latest, mode,
          loadVars, threadVars>>

\* ------------------------------------------------------------------ bounds

\* main stops being offered files once this many nodes have been allocated
MaxAlloc == 4
\* number of distinct course numbers offered to the tree store's operations
NumKeys == 4
\* number of distinct course numbers inserted in every order (insert-only runs)
NumOrderKeys == 6
\* height of the sparsest AVL tree built by the worst-case insert-only run
WorstHeight == 13

\* ------------------------------------------------------------------ strings

NULL == 0

Max(a, b) == IF a >= b THEN a ELSE b
Min(a, b) == IF a <= b THEN a ELSE b

\* A function with one more (or one overwritten) entry.
Put(f, k, v) == [x \in DOMAIN f \cup {k} |-> IF x = k THEN v ELSE f[x]]

\* std::string operator< : lexicographic on the character codes, a proper
\* prefix being smaller.
StrLess(a, b) ==
    LET n == Min(Len(a), Len(b))
        diffs == {i \in 1..n : a[i] # b[i]}
    IN  IF diffs = {}
        THEN Len(a) < Len(b)
        ELSE LET i == CHOOSE j \in diffs : \A m \in diffs : j <= m
             IN  a[i] < b[i]

\* std::string operator> .
StrGreater(a, b) == StrLess(b, a)

\* std::isspace in the "C" locale: space, \t, \n, \v, \f, \r.
isspace(c) == c = 32 \/ (c >= 9 /\ c <= 13)

\* trim's two loops, on 0-based positions start and end as in the code.
RECURSIVE trimStart(_, _, _)
trimStart(s, start, end) ==
    IF start < end /\ isspace(s[start + 1])
    THEN trimStart(s, start + 1, end)
    ELSE start

RECURSIVE trimEnd(_, _, _)
trimEnd(s, start, end) ==
    IF end > start /\ isspace(s[end])
    THEN trimEnd(s, start, end - 1)
    ELSE end

trim(s) ==
    LET start == trimStart(s, 0, Len(s))
        end   == trimEnd(s, start, Len(s))
    IN  SubSeq(s, start + 1, end)

Quote == 34
Comma == 44
Hash == 35
CarriageReturn == 13
Pipe == 124
Semicolon == 59

stripQuotes(s) ==
    IF Len(s) >= 2 /\ s[1] = Quote /\ s[Len(s)] = Quote
    THEN SubSeq(s, 2, Len(s) - 1)
    ELSE s

\* std::toupper in the "C" locale, over every character of s.
toUpper(s) ==
    [i \in 1..Len(s) |-> IF s[i] >= 97 /\ s[i] <= 122 THEN s[i] - 32 ELSE s[i]]

\* splitCSVLine's loop from 1-based position i, with the fields found so
\* far, the field being read and the inQuotes flag.
RECURSIVE splitCSVFrom(_, _, _, _, _)
splitCSVFrom(line, i, fields, field, inQuotes) ==
    IF i > Len(line) THEN Append(fields, field)
    ELSE LET c == line[i]
         IN  IF c = Quote
             THEN IF inQuotes /\ i + 1 <= Len(line) /\ line[i + 1] = Quote
                  THEN splitCSVFrom(line, i + 2, fields, Append(field, Quote), inQuotes)
                  ELSE splitCSVFrom(line, i + 1, fields, field, ~inQuotes)
             ELSE IF c = Comma /\ ~inQuotes
             THEN splitCSVFrom(line, i + 1, Append(fields, field), <<>>, inQuotes)
             ELSE splitCSVFrom(line, i + 1, fields, Append(field, c), inQuotes)

splitCSVLine(line) == splitCSVFrom(line, 1, <<>>, <<>>, FALSE)

\* splitPrereqTokens' flush: the tokens with the trimmed token added when
\* it is not empty.
flush(tokens, token) ==
    LET t == trim(token)
    IN  IF t # <<>> THEN Append(tokens, t) ELSE tokens

RECURSIVE splitPrereqFrom(_, _, _, _)
splitPrereqFrom(s, i, tokens, token) ==
    IF i > Len(s) THEN flush(tokens, token)
    ELSE LET c == s[i]
         IN  IF isspace(c) \/ c = Pipe \/ c = Semicolon \/ c = Comma
             THEN splitPrereqFrom(s, i + 1, flush(tokens, token), <<>>)
             ELSE splitPrereqFrom(s, i + 1, tokens, Append(token, c))

splitPrereqTokens(s) == splitPrereqFrom(s, 1, <<>>, <<>>)

\* std::sort followed by std::unique / erase: the distinct strings of the
\* sequence in ascending order.
RECURSIVE sortedSet(_)
sortedSet(S) ==
    IF S = {} THEN <<>>
    ELSE LET m == CHOOSE x \in S : \A y \in S : y = x \/ StrLess(x, y)
         IN  <<m>> \o sortedSet(S \ {m})

sortUnique(seq) == sortedSet({seq[i] : i \in 1..Len(seq)})

\* ------------------------------------------------------------------ AVL tree

\* struct Course.
Course(number, title, prerequisites) ==
    [number |-> number, title |-> title, prerequisites |-> prerequisites]

\* AVLNode's constructor: height 1, no children.
AVLNode(k, v) ==
    [key |-> k, value |-> v, height |-> 1, left |-> NULL, right |-> NULL]

nodeHeight(h, n) == IF n # NULL THEN h[n].height ELSE 0

balanceFactor(h, n) ==
    IF n # NULL
    THEN nodeHeight(h, h[n].left) - nodeHeight(h, h[n].right)
    ELSE 0

updateHeight(h, n) ==
    IF n # NULL
    THEN [h EXCEPT ![n].height =
              1 + Max(nodeHeight(h, h[n].left), nodeHeight(h, h[n].right))]
    ELSE h

\* rotateRight with the two height updates in the wrong order (promoted
\* pivot before the rotated-out node).
rotateRight_pivotFirst(h, y) ==
    LET x  == h[y].left
        T2 == h[x].right
        h1 == [h EXCEPT ![x].right = y]
        h2 == [h1 EXCEPT ![y].left = T2]
        h3 == updateHeight(h2, x)
        h4 == updateHeight(h3, y)
    IN  [heap |-> h4, ret |-> x]

\* rotateRight that never recomputes the rotated-out node's height.
rotateRight_staleY(h, y) ==
    LET x  == h[y].left
        T2 == h[x].right
        h1 == [h EXCEPT ![x].right = y]
        h2 == [h1 EXCEPT ![y].left = T2]
        h4 == updateHeight(h2, x)
    IN  [heap |-> h4, ret |-> x]

rotateRight(h, y) ==
    LET x  == h[y].left
        T2 == h[x].right
        h1 == [h EXCEPT ![x].right = y]
        h2 == [h1 EXCEPT ![y].left = T2]
        h3 == updateHeight(h2, y)
        h4 == updateHeight(h3, x)
    IN  [heap |-> h4, ret |-> x]

\* rotateLeft that hands the pivot's right subtree, not its left one, to
\* the rotated-out node.
rotateLeft_wrongT2(h, x) ==
    LET y  == h[x].right
        T2 == h[y].right
        h1 == [h EXCEPT ![y].left = x]
        h2 == [h1 EXCEPT ![x].right = T2]
        h3 == updateHeight(h2, x)
        h4 == updateHeight(h3, y)
    IN  [heap |-> h4, ret |-> y]

\* rotateLeft that returns the rotated-out node instead of the pivot.
rotateLeft_retX(h, x) ==
    LET y  == h[x].right
        T2 == h[y].left
        h1 == [h EXCEPT ![y].left = x]
        h2 == [h1 EXCEPT ![x].right = T2]
        h3 == updateHeight(h2, x)
        h4 == updateHeight(h3, y)
    IN  [heap |-> h4, ret |-> x]

\* rotateLeft without its two updateHeight calls.
rotateLeft_noHeights(h, x) ==
    LET y  == h[x].right
        T2 == h[y].left
        h1 == [h EXCEPT ![y].left = x]
        h2 == [h1 EXCEPT ![x].right = T2]
    IN  [heap |-> h2, ret |-> y]

rotateLeft(h, x) ==
    LET y  == h[x].right
        T2 == h[y].left
        h1 == [h EXCEPT ![y].left = x]
        h2 == [h1 EXCEPT ![x].right = T2]
        h3 == updateHeight(h2, x)
        h4 == updateHeight(h3, y)
    IN  [heap |-> h4, ret |-> y]

\* One entry of the rotation log: which of avlInsert's four cases called the
\* rotation, its direction ("R" rotateRight, "L" rotateLeft) and its argument.
\* Case "none" is the final return node taken with a balance factor outside
\* [-1, 1].
Rot(case, dir, n) == [case |-> case, dir |-> dir, at |-> n]

\* avlInsert's tail rotating only when the balance factor is beyond 2.
avlRebalance_offByOne(h0, node, key, rot) ==
    LET h  == updateHeight(h0, node)
        bf == balanceFactor(h, node)
    IN  IF bf > 2 /\ StrLess(key, h[h[node].left].key)
        THEN LET r == rotateRight(h, node)
             IN  [heap |-> r.heap, ret |-> r.ret, rot |-> rot \o <<Rot("LL", "R", node)>>]
        ELSE IF bf < -2 /\ StrGreater(key, h[h[node].right].key)
        THEN LET r == rotateLeft(h, node)
             IN  [heap |-> r.heap, ret |-> r.ret, rot |-> rot \o <<Rot("RR", "L", node)>>]
        ELSE IF bf > 2 /\ StrGreater(key, h[h[node].left].key)
        THEN LET r1 == rotateLeft(h, h[node].left)
                 h1 == [r1.heap EXCEPT ![node].left = r1.ret]
                 r2 == rotateRight(h1, node)
             IN  [heap |-> r2.heap, ret |-> r2.ret,
                  rot |-> rot \o <<Rot("LR", "L", h[node].left), Rot("LR", "R", node)>>]
        ELSE IF bf < -2 /\ StrLess(key, h[h[node].right].key)
        THEN LET r1 == rotateRight(h, h[node].right)
                 h1 == [r1.heap EXCEPT ![node].right = r1.ret]
                 r2 == rotateLeft(h1, node)
             IN  [heap |-> r2.heap, ret |-> r2.ret,
                  rot |-> rot \o <<Rot("RL", "R", h[node].right), Rot("RL", "L", node)>>]
        ELSE [heap |-> h, ret |-> node, rot |-> rot]

\* avlInsert's tail with the two double-rotation cases left out.
avlRebalance_singleOnly(h0, node, key, rot) ==
    LET h  == updateHeight(h0, node)
        bf == balanceFactor(h, node)
    IN  IF bf > 1 /\ StrLess(key, h[h[node].left].key)
        THEN LET r == rotateRight(h, node)
             IN  [heap |-> r.heap, ret |-> r.ret, rot |-> rot \o <<Rot("LL", "R", node)>>]
        ELSE IF bf < -1 /\ StrGreater(key, h[h[node].right].key)
        THEN LET r == rotateLeft(h, node)
             IN  [heap |-> r.heap, ret |-> r.ret, rot |-> rot \o <<Rot("RR", "L", node)>>]
        ELSE [heap |-> h, ret |-> node, rot |-> rot]

\* The tail of avlInsert, after the recursive call has re-linked the child:
\* recompute the height, then apply the first matching rotation case.
\* rot is the list of rotations made so far by this insert.
avlRebalance(h0, node, key, rot) ==
    LET h  == updateHeight(h0, node)
        bf == balanceFactor(h, node)
    IN  IF bf > 1 /\ StrLess(key, h[h[node].left].key)
        THEN \* Left Left
             LET r == rotateRight(h, node)
             IN  [heap |-> r.heap, ret |-> r.ret, rot |-> rot \o <<Rot("LL", "R", node)>>]
        ELSE IF bf < -1 /\ StrGreater(key, h[h[node].right].key)
        THEN \* Right Right
             LET r == rotateLeft(h, node)
             IN  [heap |-> r.heap, ret |-> r.ret, rot |-> rot \o <<Rot("RR", "L", node)>>]
        ELSE IF bf > 1 /\ StrGreater(key, h[h[node].left].key)
        THEN \* Left Right
             LET r1 == rotateLeft(h, h[node].left)
                 h1 == [r1.heap EXCEPT ![node].left = r1.ret]
                 r2 == rotateRight(h1, node)
             IN  [heap |-> r2.heap, ret |-> r2.ret,
                  rot |-> rot \o <<Rot("LR", "L", h[node].left), Rot("LR", "R", node)>>]
        ELSE IF bf < -1 /\ StrLess(key, h[h[node].right].key)
        THEN \* Right Left
             LET r1 == rotateRight(h, h[node].right)
                 h1 == [r1.heap EXCEPT ![node].right = r1.ret]
                 r2 == rotateLeft(h1, node)
             IN  [heap |-> r2.heap, ret |-> r2.ret,
                  rot |-> rot \o <<Rot("RL", "R", h[node].right), Rot("RL", "L", node)>>]
        ELSE \* return node; logged when it is reached out of balance
             [heap |-> h, ret |-> node,
              rot |-> IF bf > 1 \/ bf < -1 THEN rot \o <<Rot("none", "", node)>> ELSE rot]

\* avlInsert whose duplicate-key branch returns without storing the value.
RECURSIVE avlInsert_keepOld(_, _, _, _)
avlInsert_keepOld(h, node, key, value) ==
    IF node = NULL
    THEN [heap |-> Append(h, AVLNode(key, value)), ret |-> Len(h) + 1, rot |-> <<>>]
    ELSE IF StrLess(key, h[node].key)
    THEN LET r  == avlInsert_keepOld(h, h[node].left, key, value)
             h1 == [r.heap EXCEPT ![node].left = r.ret]
         IN  avlRebalance(h1, node, key, r.rot)
    ELSE IF StrGreater(key, h[node].key)
    THEN LET r  == avlInsert_keepOld(h, h[node].right, key, value)
             h1 == [r.heap EXCEPT ![node].right = r.ret]
         IN  avlRebalance(h1, node, key, r.rot)
    ELSE [heap |-> h, ret |-> node, rot |-> <<>>]

\* avlInsert(node, key, value): the heap afterwards, the returned subtree
\* root, and the rotations made.
RECURSIVE avlInsert(_, _, _, _)
avlInsert(h, node, key, value) ==
    IF node = NULL
    THEN [heap |-> Append(h, AVLNode(key, value)), ret |-> Len(h) + 1, rot |-> <<>>]
    ELSE IF StrLess(key, h[node].key)
    THEN LET r  == avlInsert(h, h[node].left, key, value)
             h1 == [r.heap EXCEPT ![node].left = r.ret]
         IN  avlRebalance(h1, node, key, r.rot)
    ELSE IF StrGreater(key, h[node].key)
    THEN LET r  == avlInsert(h, h[node].right, key, value)
             h1 == [r.heap EXCEPT ![node].right = r.ret]
         IN  avlRebalance(h1, node, key, r.rot)
    ELSE \* Duplicate key: overwrite value (latest wins)
         [heap |-> [h EXCEPT ![node].value = value], ret |-> node, rot |-> <<>>]

\* ------------------------------------------------------------------ avlInsert, write by write

\* One store to memory: field "new" is the construction of node (new
\* AVLNode), "root" the caller's assignment root = avlInsert(...), any
\* other field a member of node.
Write(node, field, val) == [node |-> node, field |-> field, val |-> val]

\* The heap after write w ("root" is not in the heap).
ApplyWrite(h, w) ==
    IF w.field = "new" THEN Append(h, w.val)
    ELSE IF w.field = "left" THEN [h EXCEPT ![w.node].left = w.val]
    ELSE IF w.field = "right" THEN [h EXCEPT ![w.node].right = w.val]
    ELSE IF w.field = "height" THEN [h EXCEPT ![w.node].height = w.val]
    ELSE IF w.field = "value" THEN [h EXCEPT ![w.node].value = w.val]
    ELSE h

RECURSIVE ApplyWrites(_, _)
ApplyWrites(h, ws) ==
    IF ws = <<>> THEN h ELSE ApplyWrites(ApplyWrite(h, Head(ws)), Tail(ws))

\* updateHeight(n) as the store it makes.
updateHeightWrite(h, n) ==
    Write(n, "height", 1 + Max(nodeHeight(h, h[n].left), nodeHeight(h, h[n].right)))

\* The two height stores that end a rotation: first n, then m.
heightWrites(h, n, m) ==
    <<updateHeightWrite(h, n), updateHeightWrite(ApplyWrite(h, updateHeightWrite(h, n)), m)>>

\* rotateRight(y): its four stores in program order, and what it returns.
rotateRightWrites(h, y) ==
    LET x     == h[y].left
        T2    == h[x].right
        links == <<Write(x, "right", y), Write(y, "left", T2)>>
    IN  [writes |-> links \o heightWrites(ApplyWrites(h, links), y, x), ret |-> x]

\* rotateLeft(x): its four stores in program order, and what it returns.
rotateLeftWrites(h, x) ==
    LET y     == h[x].right
        T2    == h[y].left
        links == <<Write(y, "left", x), Write(x, "right", T2)>>
    IN  [writes |-> links \o heightWrites(ApplyWrites(h, links), x, y), ret |-> y]

\* A rotation of node's child (first) followed by the store of its result
\* into node's field, then the rotation of node itself (second): the two
\* double-rotation cases.
doubleWrites(h, first, node, field, secondOf) ==
    [writes |-> first.writes \o <<Write(node, field, first.ret)>>
                \o secondOf.writes,
     ret |-> secondOf.ret]

\* The four cases of avlInsert's tail, h being the heap once
\* updateHeight(node) has stored and bf being balanceFactor(node).
casesWrites(h, node, key, bf) ==
    IF bf > 1 /\ StrLess(key, h[h[node].left].key)
    THEN rotateRightWrites(h, node)
    ELSE IF bf < -1 /\ StrGreater(key, h[h[node].right].key)
    THEN rotateLeftWrites(h, node)
    ELSE IF bf > 1 /\ StrGreater(key, h[h[node].left].key)
    THEN doubleWrites(h, rotateLeftWrites(h, h[node].left), node, "left",
             rotateRightWrites(
                 ApplyWrites(h, rotateLeftWrites(h, h[node].left).writes
                                \o <<Write(node, "left", rotateLeftWrites(h, h[node].left).ret)>>),
                 node))
    ELSE IF bf < -1 /\ StrLess(key, h[h[node].right].key)
    THEN doubleWrites(h, rotateRightWrites(h, h[node].right), node, "right",
             rotateLeftWrites(
                 ApplyWrites(h, rotateRightWrites(h, h[node].right).writes
                                \o <<Write(node, "right", rotateRightWrites(h, h[node].right).ret)>>),
                 node))
    ELSE [writes |-> <<>>, ret |-> node]

\* What avlInsert does at node once the recursive call has returned r: the
\* store of r.ret into the child field, updateHeight(node), the cases.
relinkWrites(h, node, field, key, r) ==
    LET link == r.writes \o <<Write(node, field, r.ret)>>
        h1   == ApplyWrites(h, link)
        hw   == updateHeightWrite(h1, node)
        h2   == ApplyWrite(h1, hw)
        c    == casesWrites(h2, node, key, balanceFactor(h2, node))
    IN  [writes |-> link \o <<hw>> \o c.writes, ret |-> c.ret]

\* avlInsert(node, key, value): every store it makes, in program order, and
\* the pointer it returns.
RECURSIVE avlInsertWrites(_, _, _, _)
avlInsertWrites(h, node, key, value) ==
    IF node = NULL
    THEN [writes |-> <<Write(Len(h) + 1, "new", AVLNode(key, value))>>, ret |-> Len(h) + 1]
    ELSE IF StrLess(key, h[node].key)
    THEN relinkWrites(h, node, "left", key, avlInsertWrites(h, h[node].left, key, value))
    ELSE IF StrGreater(key, h[node].key)
    THEN relinkWrites(h, node, "right", key, avlInsertWrites(h, h[node].right, key, value))
    ELSE [writes |-> <<Write(node, "value", value)>>, ret |-> node]

\* root = avlInsert(root, key, value): avlInsert's stores, then the store
\* of its result into root.
insertWrites(h, rt, key, value) ==
    avlInsertWrites(h, rt, key, value).writes
    \o <<Write(NULL, "root", avlInsertWrites(h, rt, key, value).ret)>>

\* avlFind descending to the wrong side.
RECURSIVE avlFind_wrongSide(_, _, _)
avlFind_wrongSide(h, node, key) ==
    IF node = NULL THEN NULL
    ELSE IF StrLess(key, h[node].key) THEN avlFind_wrongSide(h, h[node].right, key)
    ELSE IF StrGreater(key, h[node].key) THEN avlFind_wrongSide(h, h[node].left, key)
    ELSE node

\* avlFind: the loop descends from node until the key matches or a null
\* child is reached.
RECURSIVE avlFind(_, _, _)
avlFind(h, node, key) ==
    IF node = NULL THEN NULL
    ELSE IF StrLess(key, h[node].key) THEN avlFind(h, h[node].left, key)
    ELSE IF StrGreater(key, h[node].key) THEN avlFind(h, h[node].right, key)
    ELSE node

\* avlInOrder printing the node before its left subtree (pre-order).
RECURSIVE avlInOrder_pre(_, _)
avlInOrder_pre(h, node) ==
    IF node = NULL THEN <<>>
    ELSE <<node>> \o avlInOrder_pre(h, h[node].left) \o avlInOrder_pre(h, h[node].right)

\* avlInOrder: the nodes in the order their "key: title" line is printed.
RECURSIVE avlInOrder(_, _)
avlInOrder(h, node) ==
    IF node = NULL THEN <<>>
    ELSE avlInOrder(h, h[node].left) \o <<node>> \o avlInOrder(h, h[node].right)

\* avlDestroy: the nodes in the order they are deleted (children first).
RECURSIVE avlDestroy(_, _)
avlDestroy(h, node) ==
    IF node = NULL THEN <<>>
    ELSE avlDestroy(h, h[node].left) \o avlDestroy(h, h[node].right) \o <<node>>

\* ------------------------------------------------------------------ loading

\* parseCourseLine's normalisation loop: f = stripQuotes(trim(f)) for every field.
normalizeFields(fields) == [i \in 1..Len(fields) |-> stripQuotes(trim(fields[i]))]

\* The inner loop over one field's tokens: the upper-cased non-empty ones.
RECURSIVE upperTokens(_, _)
upperTokens(tokens, j) ==
    IF j > Len(tokens) THEN <<>>
    ELSE IF tokens[j] # <<>>
    THEN <<toUpper(tokens[j])>> \o upperTokens(tokens, j + 1)
    ELSE upperTokens(tokens, j + 1)

\* The prerequisite loop of parseCourseLine: the upper-cased tokens of
\* fields[i..], in order.
RECURSIVE prereqsFrom(_, _)
prereqsFrom(fields, i) ==
    IF i > Len(fields) THEN <<>>
    ELSE IF fields[i] # <<>>
    THEN upperTokens(splitPrereqTokens(fields[i]), 1) \o prereqsFrom(fields, i + 1)
    ELSE prereqsFrom(fields, i + 1)

\* parseCourseLine after the CSV split and normalisation: the required
\* fields are checked and the course is built.
parseFields(fields) ==
    IF Len(fields) < 2 \/ fields[1] = <<>> \/ fields[2] = <<>>
    THEN [ok |-> FALSE, err |-> "malformed", course |-> Course(<<>>, <<>>, <<>>)]
    ELSE [ok |-> TRUE, err |-> "",
          course |-> Course(toUpper(fields[1]), fields[2],
                            sortUnique(prereqsFrom(fields, 3)))]

\* parseCourseLine once the trailing '\r' is dropped.
parseLine(line, t) ==
    IF t = <<>> \/ t[1] = Hash
    THEN [ok |-> FALSE, err |-> "skip", course |-> Course(<<>>, <<>>, <<>>)]
    ELSE parseFields(normalizeFields(splitCSVLine(line)))

dropCR(rawLine) ==
    IF rawLine # <<>> /\ rawLine[Len(rawLine)] = CarriageReturn
    THEN SubSeq(rawLine, 1, Len(rawLine) - 1)
    ELSE rawLine

\* parseCourseLine: ok with the course, or not ok with err "skip" (blank or
\* comment line) or "malformed".
parseCourseLine(rawLine) == parseLine(dropCR(rawLine), trim(dropCR(rawLine)))

\* root = avlInsert(root, c.number, c); ++added  -- r is avlInsert's result.
loadInsert(st, c, r) ==
    [st EXCEPT !.heap = r.heap, !.root = r.ret, !.added = @ + 1,
               !.rot = @ \o r.rot, !.latest = Put(@, c.number, c)]

\* loadLine with the warning's ++skipped left out.
loadLine_dropBad(st, p) ==
    IF ~p.ok
    THEN st
    ELSE loadInsert(st, p.course,
                    avlInsert(st.heap, st.root, p.course.number, p.course))

\* The body of loadCoursesFromFile's getline loop, p being the result of
\* parseCourseLine on the line.
loadLine(st, p) ==
    IF ~p.ok
    THEN IF p.err = "skip" THEN st ELSE [st EXCEPT !.skipped = @ + 1]
    ELSE loadInsert(st, p.course,
                    avlInsert(st.heap, st.root, p.course.number, p.course))

\* The getline loop of loadCoursesFromFile from line i on; st carries the
\* heap, the root, the two counters and the history variables.
RECURSIVE loadLines(_, _, _)
loadLines(st, lines, i) ==
    IF i > Len(lines) THEN st
    ELSE loadLines(loadLine(st, parseCourseLine(lines[i])), lines, i + 1)

\* What loadCoursesFromFile returns after the loop: true when added > 0.
loadResult(st) ==
    [ok |-> st.added # 0, heap |-> st.heap, root |-> st.root,
     added |-> st.added, skipped |-> st.skipped,
     rot |-> st.rot, latest |-> st.latest]

\* loadCoursesFromFile(filename, root), file being what the filename names:
\* whether it can be opened, and its lines.
loadCoursesFromFile(h, rt, file, hist) ==
    IF ~file.exists
    THEN [ok |-> FALSE, heap |-> h, root |-> rt, added |-> 0, skipped |-> 0,
          rot |-> <<>>, latest |-> hist]
    ELSE loadResult(loadLines([heap |-> h, root |-> NULL, added |-> 0,
                               skipped |-> 0, rot |-> <<>>, latest |-> <<>>],
                              file.lines, 1))

\* printCourseInfo's output once the tree is not empty: "not found", or the
\* course line followed by one line per prerequisite with its title when
\* the prerequisite is itself in the tree.
printCourseInfo(h, rt, courseNumberRaw) ==
    LET key  == toUpper(trim(courseNumberRaw))
        node == avlFind(h, rt, key)
    IN  IF node = NULL
        THEN [key |-> key, ret |-> NULL, out |-> <<[notFound |-> key]>>]
        ELSE LET c == h[node].value
             IN  [key |-> key, ret |-> node,
                  out |-> <<[number |-> c.number, title |-> c.title]>>
                          \o [i \in 1..Len(c.prerequisites) |->
                                LET pn == avlFind(h, rt, c.prerequisites[i])
                                IN  IF pn # NULL
                                    THEN [prereq |-> c.prerequisites[i],
                                          title |-> h[pn].value.title]
                                    ELSE [prereq |-> c.prerequisites[i],
                                          title |-> "unknown"]]]

\* ------------------------------------------------------------------ tree store

\* Course numbers "A", "B", ... and the two titles "a", "b".
Key(i) == <<64 + i>>
Keys == {Key(i) : i \in 1..NumKeys}
TitleA == <<97>>
TitleB == <<98>>
Titles == {TitleA, TitleB}

\* res: op is the last operation; dup says whether an insert's key was
\* already present; key / ret are avlFind's argument and result; nodes / out
\* are the nodes avlInOrder visited and the lines it printed.
\* ok / added / skipped are loadCoursesFromFile's result and counters.
NoRes ==
    [op |-> "none", dup |-> FALSE, key |-> <<>>, ret |-> NULL,
     nodes |-> <<>>, out |-> <<>>, ok |-> FALSE, added |-> 0, skipped |-> 0]

\* The line avlInOrder prints for node n: "<key>: <title>".
Printed(h, n) == [key |-> h[n].key, title |-> h[n].value.title]

\* No avlInsert in progress.
NoWriter == [key |-> <<>>, value |-> <<>>, writes |-> <<>>]

\* No avlFind in progress.  at is "idle", "loop" or "done"; node is
\* avlFind's node; seen are the nodes the loop has been at, again says that
\* it came to one of them a second time; present says whether the key had
\* been inserted when avlFind was called.
NoReader ==
    [at |-> "idle", key |-> <<>>, node |-> NULL, ret |-> NULL,
     seen |-> {}, again |-> FALSE, present |-> FALSE]

\* main's locals before the first menu command; no node allocated yet.
InitCommon ==
    /\ heap = <<>>
    /\ root = NULL
    /\ freed = <<>>
    /\ dataLoaded = FALSE
    /\ pc = "menu"
    /\ res = NoRes
    /\ rotLog = <<>>
    /\ latest = <<>>
    /\ stream = <<>>
    /\ lineNumber = 0
    /\ lock = "free"
    /\ writer = NoWriter
    /\ reader = NoReader

\* freed extended with a zero for every node allocated since.
Grown(f, h) == [n \in 1..Len(h) |-> IF n <= Len(f) THEN f[n] ELSE 0]

\* root = avlInsert(root, c.number, c)
Insert(k, t) ==
    LET c == Course(k, t, <<>>)
        r == avlInsert(heap, root, c.number, c)
    IN  /\ heap' = r.heap
        /\ root' = r.ret
        /\ freed' = Grown(freed, r.heap)
        /\ rotLog' = rotLog \o r.rot
        /\ latest' = Put(latest, k, c)
        /\ res' = [NoRes EXCEPT !.op = "insert", !.dup = (k \in DOMAIN latest)]
        /\ UNCHANGED <<dataLoaded, pc, mode, loadVars, threadVars>>

\* avlFind(root, key)
Find(k) ==
    /\ res' = [NoRes EXCEPT !.op = "find", !.key = k, !.ret = avlFind(heap, root, k)]
    /\ UNCHANGED <<heap, root, freed, dataLoaded, pc, rotLog, latest, mode, loadVars, threadVars>>

\* avlInOrder(root)
InOrder ==
    LET ns == avlInOrder(heap, root)
    IN  /\ res' = [NoRes EXCEPT !.op = "inorder", !.nodes = ns,
                                !.out = [i \in 1..Len(ns) |-> Printed(heap, ns[i])]]
        /\ UNCHANGED <<heap, root, freed, dataLoaded, pc, rotLog, latest, mode, loadVars, threadVars>>

\* The tree store driven through its three operations, in any sequence.
Init == InitCommon /\ mode = "store"

Next ==
    \/ \E k \in Keys, t \in Titles : Insert(k, t)
    \/ \E k \in Keys : Find(k)
    \/ InOrder

Spec == Init /\ [][Next]_vars

\* ------------------------------------------------------------------ insert-only runs

\* Insert-only drivers of the same tree: "orders" inserts course numbers
\* from a small set in every order, repeats included; "worst" builds the
\* sparsest AVL tree of height WorstHeight (a Fibonacci tree) by inserting
\* its keys level by level.

OrderKeys == {Key(i) : i \in 1..NumOrderKeys}

RECURSIVE Fib(_)
Fib(n) == IF n <= 1 THEN n ELSE Fib(n - 1) + Fib(n - 2)

\* Number of nodes of the sparsest AVL tree of height ht.
MinSize(ht) == Fib(ht + 2) - 1

\* Ranks (1 = smallest key) of the nodes at depth d of the sparsest tree of
\* height ht whose smallest rank is lo + 1, left to right.  Its root has
\* a sparsest left subtree of height ht-1 and right subtree of height ht-2.
RECURSIVE LevelRanks(_, _, _)
LevelRanks(ht, lo, d) ==
    IF ht <= 0 THEN <<>>
    ELSE IF d = 0 THEN <<lo + MinSize(ht - 1) + 1>>
    ELSE LevelRanks(ht - 1, lo, d - 1)
         \o LevelRanks(ht - 2, lo + MinSize(ht - 1) + 1, d - 1)

RECURSIVE LevelsFrom(_, _)
LevelsFrom(ht, d) ==
    IF d >= ht THEN <<>> ELSE LevelRanks(ht, 0, d) \o LevelsFrom(ht, d + 1)

WorstOrder == LevelsFrom(WorstHeight, 0)

\* The course number of rank r: four decimal digits, so that the string
\* order is the numeric order.
WorstKey(r) ==
    <<48 + (r \div 1000), 48 + ((r \div 100) % 10),
      48 + ((r \div 10) % 10), 48 + (r % 10)>>

InitInserts == InitCommon /\ mode \in {"orders", "worst"}

InsertAnyOrder ==
    /\ mode = "orders"
    /\ \E k \in OrderKeys : Insert(k, TitleA)

InsertWorst ==
    /\ mode = "worst"
    /\ Len(heap) < Len(WorstOrder)
    /\ Insert(WorstKey(WorstOrder[Len(heap) + 1]), TitleA)

NextInserts == InsertAnyOrder \/ InsertWorst

SpecInserts == InitInserts /\ [][NextInserts]_vars

\* ------------------------------------------------------------------ loading a file, line by line

\* loadCoursesFromFile with the file open, one getline per step.  The
\* counters added and skipped are kept in res.

\* a file holds at most this many lines
MaxLines == 3

\* The lines a file is made of:
\*   `A,a`          a course
\*   ` b , b `      blanks around the fields, lower case
\*   `""" a""",t`   a quoted number with doubled quotes
\*   ``             an empty line
\*   ` # c`         a comment
\*   `,a`           no course number
\*   `C`            no title
\*   `a,b\r`        CRLF, and the number of the first line again
FileLines ==
    {<<65, 44, 97>>,
     <<32, 98, 32, 44, 32, 98, 32>>,
     <<34, 34, 34, 32, 97, 34, 34, 34, 44, 116>>,
     <<>>,
     <<32, 35, 32, 99>>,
     <<44, 97>>,
     <<67>>,
     <<97, 44, 98, 13>>}

RECURSIVE SeqsUpTo(_, _)
SeqsUpTo(S, n) ==
    IF n = 0 THEN {<<>>}
    ELSE LET shorter == SeqsUpTo(S, n - 1)
         IN  shorter \cup {Append(q, x) : q \in {r \in shorter : Len(r) = n - 1}, x \in S}

\* The file is open and root has been reset; no line read yet.
InitLoad ==
    /\ heap = <<>>
    /\ root = NULL
    /\ freed = <<>>
    /\ dataLoaded = FALSE
    /\ pc = "loading"
    /\ res = NoRes
    /\ rotLog = <<>>
    /\ latest = <<>>
    /\ stream \in SeqsUpTo(FileLines, MaxLines)
    /\ lineNumber = 0
    /\ lock = "free"
    /\ writer = NoWriter
    /\ reader = NoReader
    /\ mode = "load"

\* The loop's state as loadLine takes it.
LoadState ==
    [heap |-> heap, root |-> root, added |-> res.added, skipped |-> res.skipped,
     rot |-> <<>>, latest |-> latest]

\* The loop after one more line has been handled, leaving st; ok is what
\* parseCourseLine returned for it.
LineDone(st, ok) ==
    /\ heap' = st.heap
    /\ root' = st.root
    /\ freed' = Grown(freed, st.heap)
    /\ rotLog' = rotLog \o st.rot
    /\ latest' = st.latest
    /\ res' = [NoRes EXCEPT !.op = "line", !.ok = ok,
                            !.added = st.added, !.skipped = st.skipped]

\* while (std::getline(in, line)) { ++lineNumber; ... }: one iteration.
LoadGetLine ==
    /\ pc = "loading"
    /\ stream # <<>>
    /\ stream' = Tail(stream)
    /\ lineNumber' = lineNumber + 1
    /\ LineDone(loadLine(LoadState, parseCourseLine(Head(stream))),
                parseCourseLine(Head(stream)).ok)
    /\ UNCHANGED <<dataLoaded, pc, mode, threadVars>>

\* getline fails at the end of the file: the loop ends and the function
\* returns added != 0.
LoadEOF ==
    /\ pc = "loading"
    /\ stream = <<>>
    /\ pc' = "loaded"
    /\ res' = [res EXCEPT !.op = "load", !.ok = (res.added # 0)]
    /\ UNCHANGED <<heap, root, freed, dataLoaded, rotLog, latest, mode,
                   loadVars, threadVars>>

NextLoad == LoadGetLine \/ LoadEOF

SpecLoad == InitLoad /\ [][NextLoad]_vars

\* ------------------------------------------------------------------ two threads

\* One thread calls root = avlInsert(root, key, value) and another calls
\* avlFind(root, key) on the same tree.  Every store of avlInsert and every
\* iteration of avlFind's loop is a step.  In mode "unlocked" the steps of
\* the two interleave freely, as the code has no lock; in mode "locked"
\* each call holds one exclusive lock from its first step to its last.
\* The stores of one avlInsert reach memory in any order the build may
\* choose (see Ready).

\* number of distinct course numbers the writer inserts
NumSharedKeys == 3

SharedKeys == {Key(i) : i \in 1..NumSharedKeys}

\* No insert into a tree of at most NumSharedKeys keys makes more stores.
MaxWrites == 8 * NumSharedKeys

\* What the reader looks for: the writer's course numbers, and "AB", which
\* lies between "A" and "B".
ProbeKeys == SharedKeys \cup {Key(1) \o Key(2)}

InitThreads == InitCommon /\ mode \in {"unlocked", "locked"}

\* lock() at the start of a public operation.
Acquire(who) ==
    IF mode = "locked" THEN lock = "free" /\ lock' = who ELSE UNCHANGED lock

\* unlock() when the operation has made its last step (finished).
Release(finished) ==
    IF mode = "locked" /\ finished THEN lock' = "free" ELSE UNCHANGED lock

\* Whether store w leaves memory as it is: it puts into a link, a height
\* or root the value that is there already.
Silent(h, rt, w) ==
    IF w.field = "left" THEN h[w.node].left = w.val
    ELSE IF w.field = "right" THEN h[w.node].right = w.val
    ELSE IF w.field = "height" THEN h[w.node].height = w.val
    ELSE IF w.field = "root" THEN rt = w.val
    ELSE FALSE

\* The stores of ws that change memory when made in program order from
\* heap h and root rt; the others cannot be seen by anyone.
RECURSIVE Changing(_, _, _)
Changing(h, rt, ws) ==
    IF ws = <<>> THEN <<>>
    ELSE (IF Silent(h, rt, Head(ws)) THEN <<>> ELSE <<Head(ws)>>)
         \o Changing(ApplyWrite(h, Head(ws)),
                     IF Head(ws).field = "root" THEN Head(ws).val ELSE rt,
                     Tail(ws))

\* The insert thread enters root = avlInsert(root, k, c).
WriterBegin(k) ==
    /\ mode \in {"unlocked", "locked"}
    /\ writer.writes = <<>>
    /\ Acquire("writer")
    /\ writer' = [key |-> k, value |-> Course(k, TitleA, <<>>),
                  writes |-> Changing(heap, root,
                                insertWrites(heap, root, k, Course(k, TitleA, <<>>)))]
    /\ UNCHANGED <<heap, root, freed, dataLoaded, pc, res, rotLog, latest, mode,
                   loadVars, reader>>

\* The memory location a store goes to.
Loc(w) == <<w.node, w.field>>

\* Two threads on one tree without a lock are a data race, so the order in
\* which the writer's stores reach memory is not the program's: the build
\* may make store i of the list visible before earlier ones.  It keeps the
\* order of the stores to one location, and no store to a node comes before
\* the node's construction.
Ready(ws, i) ==
    \A j \in 1..(i - 1) : Loc(ws[j]) # Loc(ws[i]) /\ ws[j].field # "new"

\* A store the build may leave out: a later store of the same call goes to
\* the same location.
Dead(ws, i) == \E j \in (i + 1)..Len(ws) : Loc(ws[j]) = Loc(ws[i])

Remove(ws, i) == SubSeq(ws, 1, i - 1) \o SubSeq(ws, i + 1, Len(ws))

\* The writer thread with store i of its list gone, made or left out; after
\* the last one avlInsert has returned and root is assigned.
WriterAfter(i) ==
    /\ writer' = IF Len(writer.writes) = 1 THEN NoWriter
                 ELSE [writer EXCEPT !.writes = Remove(@, i)]
    /\ latest' = IF Len(writer.writes) = 1
                 THEN Put(latest, writer.key, writer.value) ELSE latest

\* WriterStep that unlocks after any store, not only the last.
WriterStep_releaseEarly(i) ==
    /\ i \in 1..Len(writer.writes)
    /\ Ready(writer.writes, i)
    /\ heap' = ApplyWrite(heap, writer.writes[i])
    /\ root' = IF writer.writes[i].field = "root" THEN writer.writes[i].val ELSE root
    /\ freed' = Grown(freed, heap')
    /\ WriterAfter(i)
    /\ Release(TRUE)
    /\ UNCHANGED <<dataLoaded, pc, res, rotLog, mode, loadVars, reader>>

\* Store i of the insert thread's list reaches memory.
WriterStep(i) ==
    /\ i \in 1..Len(writer.writes)
    /\ Ready(writer.writes, i)
    /\ heap' = ApplyWrite(heap, writer.writes[i])
    /\ root' = IF writer.writes[i].field = "root" THEN writer.writes[i].val ELSE root
    /\ freed' = Grown(freed, heap')
    /\ WriterAfter(i)
    /\ Release(Len(writer.writes) = 1)
    /\ UNCHANGED <<dataLoaded, pc, res, rotLog, mode, loadVars, reader>>

\* Store i of the insert thread's list never reaches memory: the build has
\* dropped it as dead (as -O2 drops node->left = rotateLeft(node->left)).
WriterElide(i) ==
    /\ i \in 1..Len(writer.writes)
    /\ Ready(writer.writes, i)
    /\ Dead(writer.writes, i)
    /\ WriterAfter(i)
    /\ UNCHANGED <<heap, root, freed, dataLoaded, pc, res, rotLog, mode, lock,
                   loadVars, reader>>

\* The find thread calls avlFind(root, k): node is root as it is now.
ReaderBegin(k) ==
    /\ mode \in {"unlocked", "locked"}
    /\ reader.at # "loop"
    /\ Acquire("reader")
    /\ reader' = [NoReader EXCEPT !.at = "loop", !.key = k, !.node = root,
                                  !.present = (k \in DOMAIN latest)]
    /\ UNCHANGED <<heap, root, freed, dataLoaded, pc, res, rotLog, latest, mode,
                   loadVars, writer>>

\* avlFind's node after one iteration at node n.
FindNext(n, key) ==
    IF StrLess(key, heap[n].key) THEN heap[n].left
    ELSE IF StrGreater(key, heap[n].key) THEN heap[n].right
    ELSE n

\* One iteration of avlFind's while loop, or its end.
ReaderStep ==
    /\ reader.at = "loop"
    /\ IF reader.node = NULL
       THEN reader' = [reader EXCEPT !.at = "done", !.ret = NULL]
       ELSE IF FindNext(reader.node, reader.key) = reader.node
       THEN reader' = [reader EXCEPT !.at = "done", !.ret = reader.node]
       ELSE reader' = [reader EXCEPT
                          !.node = FindNext(reader.node, reader.key),
                          !.seen = @ \cup {reader.node},
                          !.again = @ \/ (FindNext(reader.node, reader.key)
                                            \in reader.seen \cup {reader.node})]
    /\ Release(reader'.at = "done")
    /\ UNCHANGED <<heap, root, freed, dataLoaded, pc, res, rotLog, latest, mode,
                   loadVars, writer>>

NextThreads ==
    \/ \E k \in SharedKeys : WriterBegin(k)
    \/ \E i \in 1..MaxWrites : WriterStep(i)
    \/ \E i \in 1..MaxWrites : WriterElide(i)
    \/ \E k \in ProbeKeys : ReaderBegin(k)
    \/ ReaderStep

SpecThreads == InitThreads /\ [][NextThreads]_vars

\* ------------------------------------------------------------------ main

\* The largest and the smallest int.
INT_MAX == 2147483647
INT_MIN == -INT_MAX - 1

\* std::stoi on the 1-based position i of s: it reads every digit from i on.
\* n counts them; acc is minus the value read so far, so that the
\* magnitude of INT_MIN fits; over says that the value has left the range
\* of int, after which acc no longer counts.
RECURSIVE digitsFrom(_, _, _, _, _)
digitsFrom(s, i, n, acc, over) ==
    IF i <= Len(s) /\ s[i] >= 48 /\ s[i] <= 57
    THEN IF over \/ acc < (INT_MIN + (s[i] - 48) + 9) \div 10
         THEN digitsFrom(s, i + 1, n + 1, acc, TRUE)
         ELSE digitsFrom(s, i + 1, n + 1, 10 * acc - (s[i] - 48), FALSE)
    ELSE [n |-> n, val |-> acc, over |-> over]

\* std::stoi: leading whitespace, an optional sign, then decimal digits;
\* it throws when there is no digit (invalid_argument) or the value does
\* not fit an int (out_of_range), and ignores what follows the digits.
stoi(s) ==
    LET i0   == trimStart(s, 0, Len(s)) + 1
        neg  == i0 <= Len(s) /\ s[i0] = 45
        sgn  == i0 <= Len(s) /\ (s[i0] = 45 \/ s[i0] = 43)
        d    == digitsFrom(s, IF sgn THEN i0 + 1 ELSE i0, 0, 0, FALSE)
    IN  IF d.n = 0 \/ d.over \/ (~neg /\ d.val = INT_MIN)
        THEN [ok |-> FALSE, val |-> -1]
        ELSE [ok |-> TRUE, val |-> IF neg THEN d.val ELSE -d.val]

\* What main makes of the menu line: "blank", "invalid" (stoi threw) or
\* the number chosen.
Choice(choiceLine) ==
    LET choiceTrim == trim(choiceLine)
        r == stoi(choiceTrim)
    IN  IF choiceTrim = <<>> THEN [kind |-> "blank", val |-> -1]
        ELSE IF ~r.ok THEN [kind |-> "invalid", val |-> -1]
        ELSE [kind |-> "number", val |-> r.val]

Chose(choiceLine, n) ==
    Choice(choiceLine).kind = "number" /\ Choice(choiceLine).val = n

\* The lines typed at the menu prompt: "1" "2" "3" "9" "" "x" "7" " 9 " "2x"
\* "999999999" "2147483648".
ChoiceLines ==
    {<<49>>, <<50>>, <<51>>, <<57>>, <<>>, <<120>>, <<55>>, <<32, 57, 32>>, <<50, 120>>,
     <<57, 57, 57, 57, 57, 57, 57, 57, 57>>,
     <<50, 49, 52, 55, 52, 56, 51, 54, 52, 56>>}

\* The files on disk.  "f":  C,c / B,b,C / A,a,"B c"    (three courses)
\*                     "g":  # x / (blank) / ,a / D,a,A;Z / d,b\r
\*                           (a comment, a blank and a malformed line, then
\*                            course D twice)
\*                     "h":  # / " ,b"                   (no valid line)
\* Any other name cannot be opened.
FileF == <<102>>
FileG == <<103>>
FileH == <<104>>
FileSystem(filename) ==
    IF filename = FileF
    THEN [exists |-> TRUE,
          lines |-> << <<67, 44, 99>>,
                       <<66, 44, 98, 44, 67>>,
                       <<65, 44, 97, 44, 34, 66, 32, 99, 34>> >>]
    ELSE IF filename = FileG
    THEN [exists |-> TRUE,
          lines |-> << <<35, 32, 120>>,
                       <<>>,
                       <<44, 97>>,
                       <<68, 44, 97, 44, 65, 59, 90>>,
                       <<100, 44, 98, 13>> >>]
    ELSE IF filename = FileH
    THEN [exists |-> TRUE, lines |-> << <<35>>, <<32, 44, 98>> >>]
    ELSE [exists |-> FALSE, lines |-> <<>>]

\* The lines typed at the filename prompt: "f" " g " "h" "n" "".
FilenameLines == {FileF, <<32, 103, 32>>, FileH, <<110>>, <<>>}

\* The lines typed at the course-number prompt: "a" " D " "Z" " ".
CourseLines == {<<97>>, <<32, 68, 32>>, <<90>>, <<32>>}

\* freed after the deletes avlDestroy makes, in its order.
Released(f, nodes) ==
    [n \in 1..Len(f) |-> f[n] + Cardinality({i \in 1..Len(nodes) : nodes[i] = n})]

\* Leaving the loop: avlDestroy(root); return 0.
Teardown ==
    /\ freed' = Released(freed, avlDestroy(heap, root))
    /\ pc' = "exited"
    /\ res' = [NoRes EXCEPT !.op = "exit"]
    /\ UNCHANGED <<heap, root, dataLoaded, rotLog, latest, mode, loadVars, threadVars>>

\* getline on std::cin fails at the menu prompt: break.
MenuEOF ==
    /\ pc \in {"menu", "eof"}
    /\ Teardown

\* choice == 9: break.
MenuExit(choiceLine) ==
    /\ pc = "menu"
    /\ Chose(choiceLine, 9)
    /\ Teardown

\* A blank line, a line stoi rejects, or a number that is no option.
MenuBad(choiceLine) ==
    /\ pc = "menu"
    /\ \/ Choice(choiceLine).kind # "number"
       \/ Choice(choiceLine).val \notin {1, 2, 3, 9}
    /\ res' = [NoRes EXCEPT !.op = "bad"]
    /\ UNCHANGED <<heap, root, freed, dataLoaded, pc, rotLog, latest, mode, loadVars, threadVars>>

\* main after loadCoursesFromFile has returned r.
LoadOutcome(r) ==
    /\ heap' = r.heap
    /\ rotLog' = rotLog \o r.rot
    /\ res' = [NoRes EXCEPT !.op = "load", !.ok = r.ok,
                            !.added = r.added, !.skipped = r.skipped]
    /\ IF r.ok
       THEN /\ root' = r.root
            /\ dataLoaded' = TRUE
            /\ freed' = Grown(freed, r.heap)
            /\ latest' = r.latest
       ELSE \* avlDestroy(root); root = nullptr; dataLoaded = false
            /\ freed' = Released(Grown(freed, r.heap), avlDestroy(r.heap, r.root))
            /\ root' = NULL
            /\ dataLoaded' = FALSE
            /\ latest' = <<>>

\* case 1 with a filename line read.
MenuLoad(choiceLine, filenameLine) ==
    /\ pc = "menu"
    /\ Chose(choiceLine, 1)
    /\ Len(heap) < MaxAlloc
    /\ IF trim(filenameLine) = <<>>
       THEN /\ res' = [NoRes EXCEPT !.op = "bad"]
            /\ UNCHANGED <<heap, root, freed, dataLoaded, rotLog, latest>>
       ELSE LoadOutcome(loadCoursesFromFile(heap, root,
                                            FileSystem(trim(filenameLine)), latest))
    /\ UNCHANGED <<pc, mode, loadVars, threadVars>>

\* case 2.
MenuPrint(choiceLine) ==
    /\ pc = "menu"
    /\ Chose(choiceLine, 2)
    /\ IF ~dataLoaded \/ root = NULL
       THEN res' = [NoRes EXCEPT !.op = "bad"]
       ELSE LET ns == avlInOrder(heap, root)
            IN  res' = [NoRes EXCEPT !.op = "inorder", !.nodes = ns,
                                    !.out = [i \in 1..Len(ns) |-> Printed(heap, ns[i])]]
    /\ UNCHANGED <<heap, root, freed, dataLoaded, pc, rotLog, latest, mode, loadVars, threadVars>>

\* case 3 with a course-number line read (none is read before data is loaded).
MenuLookup(choiceLine, courseNumber) ==
    /\ pc = "menu"
    /\ Chose(choiceLine, 3)
    /\ IF ~dataLoaded \/ trim(courseNumber) = <<>> \/ root = NULL
       THEN res' = [NoRes EXCEPT !.op = "bad"]
       ELSE LET r == printCourseInfo(heap, root, courseNumber)
            IN  res' = [NoRes EXCEPT !.op = "find", !.key = r.key, !.ret = r.ret,
                                    !.out = r.out]
    /\ UNCHANGED <<heap, root, freed, dataLoaded, pc, rotLog, latest, mode, loadVars, threadVars>>

\* case 1 or case 3 (with data loaded) when getline fails at the second
\* prompt: continue, to a menu prompt whose getline fails too.
MenuSecondEOF(choiceLine) ==
    /\ pc = "menu"
    /\ Chose(choiceLine, 1) \/ (Chose(choiceLine, 3) /\ dataLoaded)
    /\ pc' = "eof"
    /\ res' = [NoRes EXCEPT !.op = "bad"]
    /\ UNCHANGED <<heap, root, freed, dataLoaded, rotLog, latest, mode, loadVars, threadVars>>

InitMain == InitCommon /\ mode = "main"

NextMain ==
    \/ MenuEOF
    \/ \E c \in ChoiceLines : MenuExit(c)
    \/ \E c \in ChoiceLines : MenuBad(c)
    \/ \E c \in ChoiceLines, f \in FilenameLines : MenuLoad(c, f)
    \/ \E c \in ChoiceLines : MenuPrint(c)
    \/ \E c \in ChoiceLines, k \in CourseLines : MenuLookup(c, k)
    \/ \E c \in ChoiceLines : MenuSecondEOF(c)

SpecMain == InitMain /\ [][NextMain]_vars

\* ------------------------------------------------------------------ tree properties

Abs(x) == IF x < 0 THEN -x ELSE x

\* The nodes of the subtree at n, as a set.
RECURSIVE Subtree(_, _)
Subtree(h, n) ==
    IF n = NULL THEN {}
    ELSE Subtree(h, h[n].left) \cup {n} \cup Subtree(h, h[n].right)

\* The number of nodes of the subtree at n, counted along the links.
RECURSIVE TreeSize(_, _)
TreeSize(h, n) ==
    IF n = NULL THEN 0
    ELSE TreeSize(h, h[n].left) + 1 + TreeSize(h, h[n].right)

\* The height of the subtree at n measured along the links, whatever the
\* height fields say.
RECURSIVE TrueHeight(_, _)
TrueHeight(h, n) ==
    IF n = NULL THEN 0
    ELSE 1 + Max(TrueHeight(h, h[n].left), TrueHeight(h, h[n].right))

TreeKeys(h, n) == {h[m].key : m \in Subtree(h, n)}

\* The order in which the keys present were first inserted.
InsertOrder == [i \in 1..Len(heap) |-> heap[i].key]

\* C1: after every insert, at every node of the tree the true heights of
\* the left and right subtrees differ by at most 1.
C1_AVLBalance ==
    \A n \in Subtree(heap, root) :
        Abs(TrueHeight(heap, heap[n].left) - TrueHeight(heap, heap[n].right)) <= 1

\* C1 witness: an insert of the last of NumOrderKeys keys has returned, the
\* tree has true height 3 and rotations were made, one of them below the root.
C1_Witness ==
    /\ mode = "orders"
    /\ res.op = "insert"
    /\ Len(heap) = NumOrderKeys
    /\ TrueHeight(heap, root) >= 3
    /\ \E i \in 1..Len(rotLog) : rotLog[i].case \in {"LR", "RL"}
    /\ \E i \in 1..Len(rotLog) : rotLog[i].case \in {"LL", "RR"}

\* C2: after every insert, every key in a node's left subtree is strictly
\* smaller than the node's key, every key in its right subtree strictly
\* greater, and no two nodes hold the same key.
C2_BSTOrder ==
    /\ \A n \in Subtree(heap, root) :
        /\ \A m \in Subtree(heap, heap[n].left) : StrLess(heap[m].key, heap[n].key)
        /\ \A m \in Subtree(heap, heap[n].right) : StrLess(heap[n].key, heap[m].key)
    /\ Cardinality(TreeKeys(heap, root)) = TreeSize(heap, root)

\* C2 witness: a tree of NumOrderKeys keys built with rotations, after a
\* further insert of a key already present.
C2_Witness ==
    /\ mode = "orders"
    /\ res.op = "insert" /\ res.dup
    /\ Len(heap) = NumOrderKeys
    /\ Len(rotLog) >= 3

\* C3: after every insert, every node's height field is 1 + the larger of
\* its children's height fields (an absent child counting 0).
C3_HeightField ==
    \A n \in Subtree(heap, root) :
        heap[n].height =
            1 + Max(IF heap[n].left = NULL THEN 0 ELSE heap[heap[n].left].height,
                    IF heap[n].right = NULL THEN 0 ELSE heap[heap[n].right].height)

\* C3 witness: a double rotation has just happened below the root of the
\* tree: both rotated nodes and their ancestors carry recomputed heights.
C3_Witness ==
    /\ mode = "orders"
    /\ res.op = "insert"
    /\ rotLog # <<>>
    /\ rotLog[Len(rotLog)].case \in {"LR", "RL"}
    /\ rotLog[Len(rotLog)].at # root
    /\ heap[rotLog[Len(rotLog)].at].height = 1
    /\ heap[root].height = 3

\* C4: a find returns the node holding the value of the most recent insert
\* under its key, or NULL for a key never inserted, and leaves the tree as
\* it was.
LookupRight ==
    IF res.key \in DOMAIN latest
    THEN /\ res.ret \in Subtree(heap, root)
         /\ heap[res.ret].key = res.key
         /\ heap[res.ret].value = latest[res.key]
    ELSE res.ret = NULL

C4_Lookup ==
    [][res'.op = "find" => (heap' = heap /\ root' = root /\ LookupRight')]_vars

\* C4 witness: a find has returned the node of a key that was overwritten
\* after a rotation moved nodes, and that node is not the root.
C4_Witness ==
    /\ res.op = "find"
    /\ res.ret # NULL
    /\ res.ret # root
    /\ heap[res.ret].value.title = TitleB
    /\ rotLog # <<>>
    /\ Len(heap) = NumKeys

\* The shape of node n: everything but its value.
Links(h, n) == <<h[n].key, h[n].height, h[n].left, h[n].right>>

\* C5: inserting a key already present changes no node, link, height or the
\* root, rotates nothing, and stores the new value in the node of that key
\* and in no other node.  (A step is such an insert of key k when it is an
\* insert, res.dup says the key was present, and the history's entry for k
\* is the value inserted.)
C5_Overwrite ==
    [][(res'.op = "insert" /\ res'.dup) =>
          \A k \in TreeKeys(heap, root) :
              latest' = Put(latest, k, latest'[k]) =>
                  /\ root' = root
                  /\ Len(heap') = Len(heap)
                  /\ rotLog' = rotLog
                  /\ \A n \in 1..Len(heap) :
                        /\ Links(heap', n) = Links(heap, n)
                        /\ heap'[n].value =
                              IF heap[n].key = k THEN latest'[k] ELSE heap[n].value
      ]_vars

\* C5 witness: a key already present was inserted again in a tree of
\* height 3, and its node, below the root, now holds the other title.
C5_Witness ==
    /\ res.op = "insert" /\ res.dup
    /\ heap[root].height = 3
    /\ \E n \in Subtree(heap, root) :
          /\ n # root
          /\ heap[n].value.title = TitleB
          /\ \E m \in Subtree(heap, root) : heap[m].value.title = TitleA

\* C6: an in-order traversal visits every node exactly once and prints the
\* keys in strictly ascending order, one line per distinct key ever inserted.
C6_InOrder ==
    res.op = "inorder" =>
        /\ Len(res.nodes) = Len(heap)
        /\ {res.nodes[i] : i \in 1..Len(res.nodes)} = 1..Len(heap)
        /\ \A i \in 1..(Len(res.out) - 1) : StrLess(res.out[i].key, res.out[i + 1].key)
        /\ {res.out[i].key : i \in 1..Len(res.out)} = DOMAIN latest
        /\ Len(res.out) = Cardinality(DOMAIN latest)

\* C6 witness: a traversal of a tree holding every key, built with a
\* rotation and with one key inserted more than once.
C6_Witness ==
    /\ res.op = "inorder"
    /\ Len(res.out) = NumKeys
    /\ rotLog # <<>>
    /\ \E i \in 1..Len(res.out) : res.out[i].title = TitleB
    /\ \E i \in 1..Len(res.out) : res.out[i].title = TitleA

KeyA == Key(1)
KeyB == Key(2)
KeyC == Key(3)

\* "B" at the root with leaves "A" and "C", heights 1 / 2 / 1.
ShapeBAC ==
    /\ root # NULL
    /\ heap[root].key = KeyB /\ heap[root].height = 2
    /\ heap[root].left # NULL /\ heap[root].right # NULL
    /\ LET l == heap[heap[root].left]
           r == heap[heap[root].right]
       IN  /\ l.key = KeyA /\ l.height = 1 /\ l.left = NULL /\ l.right = NULL
           /\ r.key = KeyC /\ r.height = 1 /\ r.left = NULL /\ r.right = NULL

\* C7: inserting "C", "B", "A" makes exactly one rotation, a right one, and
\* inserting "A", "B", "C" exactly one, a left one; both leave "B" at the
\* root over "A" and "C" with heights 1 / 2 / 1.
C7_SingleRotation ==
    /\ InsertOrder = <<KeyC, KeyB, KeyA>> =>
          /\ Len(rotLog) = 1 /\ rotLog[1].dir = "R"
          /\ ShapeBAC
    /\ InsertOrder = <<KeyA, KeyB, KeyC>> =>
          /\ Len(rotLog) = 1 /\ rotLog[1].dir = "L"
          /\ ShapeBAC

\* C7 witness: "C", "B", "A" have been inserted in that order.
C7_Witness ==
    /\ InsertOrder = <<KeyC, KeyB, KeyA>>
    /\ res.op = "insert" /\ ~res.dup

\* C8 as stated: inserting "A", "C", "B" is handled by the Left-Right case
\* (left-rotate the root's left child, then right-rotate the root) and
\* leaves "B" at the root over "A" and "C".
C8_AsStated ==
    InsertOrder = <<KeyA, KeyC, KeyB>> =>
        /\ Len(rotLog) = 2
        /\ rotLog[1].case = "LR" /\ rotLog[1].dir = "L"
        /\ rotLog[2].case = "LR" /\ rotLog[2].dir = "R"
        /\ ShapeBAC

\* C8 amended: inserting "A", "C", "B" is handled by the Right-Left case:
\* the root "A" has balance factor < -1, its right child "C" is rotated
\* right, then the root is rotated left; "B" ends at the root over "A" and "C".
C8_RightLeft ==
    InsertOrder = <<KeyA, KeyC, KeyB>> =>
        /\ rotLog = <<Rot("RL", "R", 2), Rot("RL", "L", 1)>>
        /\ ShapeBAC

\* C8 witness: "A", "C", "B" have been inserted in that order.
C8_Witness ==
    /\ InsertOrder = <<KeyA, KeyC, KeyB>>
    /\ res.op = "insert" /\ ~res.dup

\* The spec's bound h <= 1.44 * log2(N + 2) - 0.328, in integers.  Log2Up(n)
\* is an upper bound of log2(n) scaled by LogScale: the integer part, then
\* 14 fraction bits by repeated squaring of the mantissa with every
\* division rounded up, then one unit for the bits not computed.  A height
\* the bound rejects here is therefore rejected by the real-valued bound.
LogScale == 2 ^ 14

CeilDiv(a, b) == (a + b - 1) \div b

RECURSIVE FloorLog2(_)
FloorLog2(n) == IF n < 2 THEN 0 ELSE 1 + FloorLog2(n \div 2)

RECURSIVE FracUp(_, _, _)
FracUp(y, i, s) ==
    IF i = 0 THEN s
    ELSE LET y2 == CeilDiv(y * y, LogScale)
         IN  IF y2 >= 2 * LogScale
             THEN FracUp(CeilDiv(y2, 2), i - 1, 2 * s + 1)
             ELSE FracUp(y2, i - 1, 2 * s)

Log2Up(n) ==
    LET e == FloorLog2(n)
    IN  e * LogScale + FracUp(CeilDiv(n * LogScale, 2 ^ e), 14, 0) + 1

WithinScaleBound(ht, n) == (1000 * ht + 328) * LogScale <= 1440 * Log2Up(n + 2)

\* C9 as stated: the root's height is at most 1.44 * log2(N + 2) - 0.328
\* for a tree of N distinct keys.
C9_AsStated ==
    root # NULL => WithinScaleBound(heap[root].height, TreeSize(heap, root))

\* C9 amended: a tree whose root has height h holds at least Fib(h+2) - 1
\* nodes, whatever the order of the inserts.
C9_FibBound ==
    root # NULL => TreeSize(heap, root) >= Fib(heap[root].height + 2) - 1

\* C9 witness: the worst-case run has built a tree of height WorstHeight
\* with exactly Fib(WorstHeight + 2) - 1 distinct keys and no rotation.
C9_Witness ==
    /\ mode = "worst"
    /\ res.op = "insert"
    /\ heap[root].height = WorstHeight
    /\ TrueHeight(heap, root) = WorstHeight
    /\ Len(heap) = MinSize(WorstHeight)
    /\ TreeSize(heap, root) = MinSize(WorstHeight)
    /\ Cardinality(DOMAIN latest) = MinSize(WorstHeight)

\* C10: when main has returned, every node avlInsert created has been
\* deleted exactly once.
C10_AsStated ==
    pc = "exited" => \A n \in 1..Len(heap) : freed[n] = 1

\* No node is ever deleted twice, and no node of the live tree is deleted
\* while main still runs.
NoDoubleFree ==
    /\ \A n \in 1..Len(heap) : freed[n] <= 1
    /\ pc # "exited" => \A n \in Subtree(heap, root) : freed[n] = 0

\* ------------------------------------------------------------------ C11

\* A key as the store's contract wants it: not empty, no white space at
\* either end, no lower-case letter.
IsLower(c) == c >= 97 /\ c <= 122
NormalKey(k) ==
    /\ k # <<>>
    /\ ~isspace(k[1])
    /\ ~isspace(k[Len(k)])
    /\ \A i \in 1..Len(k) : ~IsLower(k[i])

\* C11: every key loadCoursesFromFile has passed to avlInsert is non-empty,
\* has no leading or trailing white space and is upper-cased.
C11_AsStated ==
    mode = "load" => \A n \in 1..Len(heap) : NormalKey(heap[n].key)

\* What the code does guarantee: the key is not empty and has no
\* lower-case letter.
KeyUpperNonEmpty ==
    mode = "load" =>
        \A n \in 1..Len(heap) :
            heap[n].key # <<>> /\ \A i \in 1..Len(heap[n].key) : ~IsLower(heap[n].key[i])

\* ------------------------------------------------------------------ C12

\* A line with nothing but white space, or whose first character after the
\* white space is '#'.
Ignorable(line) ==
    \A i \in 1..Len(line) :
        (\A j \in 1..(i - 1) : isspace(line[j])) => (isspace(line[i]) \/ line[i] = Hash)

\* A line that has a course number and a title once split at its commas.
WellFormed(line) ==
    LET fields == normalizeFields(splitCSVLine(dropCR(line)))
    IN  /\ ~Ignorable(line)
        /\ Len(fields) >= 2
        /\ fields[1] # <<>>
        /\ fields[2] # <<>>

\* C12: the loop handles every line up to the end of the file.  A blank or
\* comment line changes no counter and no node; a malformed line adds one
\* to skipped and inserts nothing; a well-formed line is inserted under
\* its upper-cased number and adds one to added, whatever came before it;
\* at the end of the file the load succeeds exactly when added > 0.
C12_LoadContinues ==
    [][/\ (pc = "loading" /\ stream # <<>>) =>
            LET line == Head(stream)
            IN  /\ pc' = "loading"
                /\ stream' = Tail(stream)
                /\ lineNumber' = lineNumber + 1
                /\ Ignorable(line) =>
                        /\ heap' = heap /\ root' = root
                        /\ res'.added = res.added /\ res'.skipped = res.skipped
                /\ (~Ignorable(line) /\ ~WellFormed(line)) =>
                        /\ heap' = heap /\ root' = root
                        /\ res'.added = res.added /\ res'.skipped = res.skipped + 1
                /\ WellFormed(line) =>
                        /\ res'.added = res.added + 1 /\ res'.skipped = res.skipped
                        /\ \E n \in Subtree(heap', root') :
                              /\ heap'[n].value = parseCourseLine(line).course
                              /\ heap'[n].key = heap'[n].value.number
                        /\ TreeKeys(heap', root') =
                              TreeKeys(heap, root) \cup {parseCourseLine(line).course.number}
       /\ (pc = "loading" /\ stream = <<>>) =>
            /\ pc' = "loaded"
            /\ res'.ok = (res.added > 0)
            /\ res'.added = res.added /\ res'.skipped = res.skipped
            /\ heap' = heap /\ root' = root
      ]_vars

\* A well-formed line has just been inserted, the first one of the file,
\* after a malformed line had been counted.
C12_Witness ==
    /\ mode = "load"
    /\ res.op = "line" /\ res.ok
    /\ res.added = 1 /\ res.skipped >= 1
    /\ root # NULL

\* ------------------------------------------------------------------ C13

\* The nodes a descent from n can come to in at most d steps; it ends on
\* any shape of the links, a cycle included.
RECURSIVE Within(_, _, _)
Within(h, n, d) ==
    IF n = NULL \/ d = 0 THEN {}
    ELSE {n} \cup Within(h, h[n].left, d - 1) \cup Within(h, h[n].right, d - 1)

Reachable(h, n) == Within(h, n, Len(h))

\* Two nodes that are each other's child.
PointAtEachOther ==
    \E x, y \in 1..Len(heap) :
        (heap[x].right = y /\ heap[y].left = x) \/ (heap[x].left = y /\ heap[y].right = x)

\* A key whose insert has returned cannot be reached from root.
KeyUnreachable ==
    \E k \in DOMAIN latest : k \notin {heap[n].key : n \in Reachable(heap, root)}

\* What avlFind has to return for its key: the node holding it when the key
\* was in the tree at the call, and NULL when it is in no node.
ReadRight ==
    /\ reader.present =>
          /\ reader.ret # NULL
          /\ heap[reader.ret].key = reader.key
          /\ heap[reader.ret].value = latest[reader.key]
    /\ (\A n \in 1..Len(heap) : heap[n].key # reader.key) => reader.ret = NULL

\* C13, second half: with one exclusive lock held for the whole of every
\* avlInsert and every avlFind, avlFind only ever runs on a tree that
\* satisfies the invariants (ordered, balanced, heights right, every
\* inserted key reachable, no two nodes pointing at each other), never
\* comes to a node twice, and returns the right node.
C13_LockedReadsSafe ==
    mode = "locked" =>
        /\ reader.at = "loop" =>
              /\ writer = NoWriter
              /\ ~PointAtEachOther
              /\ ~KeyUnreachable
              /\ C1_AVLBalance /\ C2_BSTOrder /\ C3_HeightField
        /\ ~reader.again
        /\ reader.at = "done" => ReadRight

\* C13, first half: without the lock, avlFind has returned NULL for a key
\* that was in the tree when it was called, while avlInsert is part-way
\* through the stores of a rotation and a key inserted before cannot be
\* reached from root.
C13_Witness ==
    /\ mode = "unlocked"
    /\ writer.writes # <<>>
    /\ reader.at = "done"
    /\ reader.present
    /\ reader.ret = NULL
    /\ KeyUnreachable

\* Without the lock, avlFind goes round two nodes that point at each other:
\* it is at a node for the second time and the writer is between the two
\* link stores of a rotation.
ReaderGoesRound ==
    /\ mode = "unlocked"
    /\ reader.at = "loop"
    /\ reader.again
    /\ PointAtEachOther

\* Without the lock no reader ever misses a key or comes to a node twice.
UnlockedReadsSafe ==
    mode = "unlocked" => (~reader.again /\ (reader.at = "done" => ReadRight))

\* The stores avlInsertWrites lists, applied in order, leave the heap and
\* the root that avlInsert returns.
WritesAgree ==
    \A k \in SharedKeys :
        LET c  == Course(k, TitleB, <<>>)
            ws == insertWrites(heap, root, k, c)
            r  == avlInsert(heap, root, k, c)
        IN  (writer = NoWriter) =>
                /\ ApplyWrites(heap, ws) = r.heap
                /\ ws[Len(ws)] = Write(NULL, "root", r.ret)

\* ------------------------------------------------------------------ C14

\* The rotation log entries added by the step.
NewRots == SubSeq(rotLog', Len(rotLog) + 1, Len(rotLog'))

\* The node that was out of balance when the last logged case applied.
Rebalanced == rotLog'[Len(rotLog')].at

\* C14: an insert of a new key finds at most one node of its path out of
\* balance on the way up: it logs nothing, or one single rotation, or the
\* two rotations of one double rotation at one node, and never a return
\* out of balance; the subtree that takes the place of the rebalanced node
\* is as high as that node's subtree was before the insert.
C14_OneRebalance ==
    [][(res'.op = "insert" /\ ~res'.dup) =>
          /\ \/ NewRots = <<>>
             \/ Len(NewRots) = 1 /\ NewRots[1].case \in {"LL", "RR"}
             \/ /\ Len(NewRots) = 2
                /\ NewRots[1].case = NewRots[2].case
                /\ NewRots[1].case \in {"LR", "RL"}
                /\ NewRots[1].at = IF NewRots[1].case = "LR"
                                   THEN heap[NewRots[2].at].left
                                   ELSE heap[NewRots[2].at].right
          /\ NewRots # <<>> =>
                \E p \in Subtree(heap', root') :
                    /\ Rebalanced \in {heap'[p].left, heap'[p].right}
                    /\ TrueHeight(heap', p) = TrueHeight(heap, Rebalanced)
                    /\ heap'[p].height = heap[Rebalanced].height
      ]_vars

\* The fifth new key, D after A, B, C, E, has just gone in below the root:
\* C was out of balance, the Right-Left case rotated E and then C, and B,
\* the root above them, was not rotated.
C14_Witness ==
    /\ mode = "orders"
    /\ res.op = "insert" /\ ~res.dup
    /\ InsertOrder = <<Key(1), Key(2), Key(3), Key(5), Key(4)>>
    /\ rotLog = <<Rot("RR", "L", 1), Rot("RL", "R", 4), Rot("RL", "L", 3)>>
    /\ root = 2
    /\ heap[root].right = 5
    /\ heap[root].height = 3

====
